---------------------------- MODULE Spec2Model ----------------------------
(***************************************************************************)
(* malloc_count: an LD_PRELOAD allocation counter (src/malloc_count.c).    *)
(*                                                                         *)
(* The model holds the interposer's static state (the four real_*          *)
(* function pointers, the ledger peak/curr/total/num_allocs, the observer  *)
(* cell, the bump pointer of the init heap), the 32-byte headers it writes *)
(* in front of every block, and the part of the environment it talks to:   *)
(* the real allocator (heap) and the caller's live pointers (ptrs).        *)
(*                                                                         *)
(* size_t is SizeBits wide and long long is the signed type of the same    *)
(* width; every size_t expression of the source is reduced modulo WordMod  *)
(* and every store into a long long goes through ToLL.                     *)
(***************************************************************************)
EXTENDS Integers, Sequences, FiniteSets

(***************************************************************************)
(* Bounds of the model.                                                    *)
(***************************************************************************)
\* width of size_t / long long in bits (64 in the build, scaled down)
SizeBits == 24
\* number of blocks the real allocator can hold at once
NumSlots == 2
\* number of entry-point calls of one run
MaxOps == 2
\* number of threads of a run in atomic mode
NumThreads == 2

(***************************************************************************)
(* Program constants.                                                      *)
(***************************************************************************)
alignment == 32
sentinel == "0xDEADC0DE"
INIT_HEAP_SIZE == 1024 * 1024
NULL == 0

WordMod == 2 ^ SizeBits
SIZE_MAX == WordMod - 1

(***************************************************************************)
(* The address space the process runs in: where the linker put init_heap   *)
(* and where the real allocator places its blocks.                         *)
(***************************************************************************)
init_heap == 1048576
HeapBase == 4194304
SlotSize == 16384
MallocAlign == 16

(***************************************************************************)
(* Inputs of the entry points.                                             *)
(***************************************************************************)
Sizes == {0, 50, 100, INIT_HEAP_SIZE, SIZE_MAX}
Alignments == {16, 32, 4096}
\* calloc(nmemb, size) argument pairs; the last product is 0 modulo WordMod
CallocArgs == {<<0, 50>>, <<2, 0>>, <<2, 50>>, <<2 ^ (SizeBits \div 2), 2 ^ (SizeBits - SizeBits \div 2)>>}
CbFn == 1
CallbackArgs == {<<NULL, 0>>, <<CbFn, 1>>}

(***************************************************************************)
(* Integer widths.                                                         *)
(***************************************************************************)
\* a value as size_t
ToSize(x) == x % WordMod
\* a size_t value stored into a long long (two's complement)
ToLL(x) == LET m == x % WordMod IN IF m >= WordMod \div 2 THEN m - WordMod ELSE m

VARIABLES
    real_malloc, real_aligned_alloc, real_realloc, real_free,
    init_pc,
    init_heap_use,
    peak, curr, total, num_allocs,
    callback, callback_cookie,
    mem,
    heap,
    ptrs,
    pc,
    frame,
    call,
    ops,
    early,
    lost,
    heapCorrupt

vars == <<real_malloc, real_aligned_alloc, real_realloc, real_free, init_pc,
          init_heap_use, peak, curr, total, num_allocs, callback,
          callback_cookie, mem, heap, ptrs, pc, frame, call, ops, early, lost,
          heapCorrupt>>

resolver == <<real_malloc, real_aligned_alloc, real_realloc, real_free, init_pc>>
ledger == <<peak, curr, total, num_allocs>>
observer == <<callback, callback_cookie>>


(***************************************************************************)
(* The real allocator (libc), reached through the real_* pointers.  It     *)
(* keeps NumSlots regions; a live block is [base, len, slot].  A request   *)
(* either fails (NULL) or is placed in the lowest free region at the first *)
(* address with the alignment asked for.                                   *)
(***************************************************************************)
SlotBase(k) == HeapBase + k * SlotSize
AlignUp(a, al) == ((a + al - 1) \div al) * al
RealPlace(k, al) == AlignUp(SlotBase(k) + MallocAlign, al)
RealFits(k, al, n) == RealPlace(k, al) + n <= SlotBase(k) + SlotSize
FreeSlots(hp) == {k \in 0..(NumSlots - 1) : \A b \in hp : b.slot # k}
FitSlots(hp, al, n) == {k \in FreeSlots(hp) : RealFits(k, al, n)}
LowestSlot(S) == CHOOSE k \in S : \A j \in S : k <= j
HeapBases(hp) == {b.base : b \in hp}
BlockAt(hp, p) == CHOOSE b \in hp : b.base = p

\* outcomes of (*real_aligned_alloc)(al, n) and, with al = MallocAlign, of
\* (*real_malloc)(n): the pointer returned and the allocator's new state;
\* NULL when no free region holds n bytes
RealAllocOutcomes(hp, al, n) ==
    IF FitSlots(hp, al, n) = {}
    THEN {[ptr |-> NULL, heap |-> hp]}
    ELSE LET k == LowestSlot(FitSlots(hp, al, n)) IN
         {[ptr |-> RealPlace(k, al),
           heap |-> hp \cup {[base |-> RealPlace(k, al), len |-> n, slot |-> k]}]}

\* outcomes of (*real_free)(p).  A pointer the allocator never returned is
\* undefined behaviour: the allocator aborts the process or goes on with a
\* damaged heap.
RealFreeOutcomes(hp, p) ==
    IF p \in HeapBases(hp)
    THEN {[status |-> "ok", heap |-> hp \ {BlockAt(hp, p)}]}
    ELSE {[status |-> "abort", heap |-> hp], [status |-> "corrupt", heap |-> hp]}

\* outcomes of (*real_realloc)(p, n): the block resized in place or moved to
\* a free region, NULL (the old block is kept) when n bytes fit nowhere.  A
\* pointer the allocator never returned is undefined behaviour: abort, or a
\* block is handed out with the bytes found at p copied into it.
RealReallocOutcomes(hp, p, n) ==
    IF p \in HeapBases(hp)
    THEN LET b == BlockAt(hp, p)
             inplace == IF p + n <= SlotBase(b.slot) + SlotSize
                        THEN {[status |-> "ok", ptr |-> p,
                               heap |-> (hp \ {b}) \cup {[b EXCEPT !.len = n]}]}
                        ELSE {}
             moved == IF FitSlots(hp, MallocAlign, n) = {} THEN {}
                      ELSE LET k == LowestSlot(FitSlots(hp, MallocAlign, n)) IN
                           {[status |-> "ok", ptr |-> RealPlace(k, MallocAlign),
                             heap |-> (hp \ {b}) \cup
                                      {[base |-> RealPlace(k, MallocAlign), len |-> n, slot |-> k]}]}
         IN IF inplace \cup moved = {}
            THEN {[status |-> "ok", ptr |-> NULL, heap |-> hp]}
            ELSE inplace \cup moved
    ELSE {[status |-> "abort", ptr |-> NULL, heap |-> hp]} \cup
         (IF FitSlots(hp, MallocAlign, n) = {} THEN {}
          ELSE LET k == LowestSlot(FitSlots(hp, MallocAlign, n)) IN
               {[status |-> "corrupt", ptr |-> RealPlace(k, MallocAlign),
                 heap |-> hp \cup {[base |-> RealPlace(k, MallocAlign), len |-> n, slot |-> k]}]})

(***************************************************************************)
(* The header in front of every block: mem maps the address of a header to *)
(* its fields.                                                             *)
(***************************************************************************)
Header(size, extra) == [size |-> size, extra_alignment |-> extra, sentinel |-> sentinel]
\* *(size_t*)ret = size; *(size_t*)(ret + 8) = extra; *(size_t*)(ret + 24) = sentinel
WriteHeader(m, a, size, extra) ==
    [x \in (DOMAIN m) \cup {a} |-> IF x = a THEN Header(size, extra) ELSE m[x]]
DropHeader(m, a) == [x \in (DOMAIN m) \ {a} |-> m[x]]
\* the header moves with the block when the real realloc moves it
MoveHeader(m, from, to) ==
    [x \in ((DOMAIN m) \ {from}) \cup {to} |-> IF x = to THEN m[from] ELSE m[x]]

\* return (char*)ret + alignment
UserPtr(ret) == ToSize(ret + alignment)
\* ptr = (char*)ptr - alignment
HeaderOf(ptr) == ToSize(ptr - alignment)
\* ptr = (char*)ptr - extra_alignment   (free)
FreeBase(hdr, extra) == ToSize(hdr - extra)
\* if (al >= alignment) extra_alignment = al - alignment   (aligned_alloc)
ExtraAlignment(al) == IF al >= alignment THEN al - alignment ELSE 0
\* ptr >= init_heap && ptr <= init_heap + init_heap_use
InInitHeap(ptr, use) == ptr >= init_heap /\ ptr <= init_heap + use
\* the check for a null pointer left out
IsNullNever(ptr) == FALSE
\* if (!ptr) return
IsNull(ptr) == ptr = NULL
\* the check for a zero size left out
IsZeroSizeNever(size) == FALSE
\* if (size == 0) return NULL
IsZeroSize(size) == size = 0
\* extra_alignment = *(size_t*)(ptr + sizeof(size_t)) = 0   (realloc)
ReallocExtra(h) == 0

(***************************************************************************)
(* The ledger.                                                             *)
(***************************************************************************)
\* curr += inc
IncCurr(c, inc) == ToLL(c + inc)
\* if ((curr += inc) > peak) peak = curr
IncPeak(p, c) == IF c > p THEN c ELSE p
\* total += inc
IncTotal(t, inc) == ToLL(t + inc)
\* curr -= dec
DecCurr(c, dec) == ToLL(c - dec)
\* ++num_allocs
IncNum(n) == ToLL(n + 1)
\* return curr (as size_t)
malloc_count_current == ToSize(curr)
\* return peak (as size_t)
malloc_count_peak == ToSize(peak)
\* return num_allocs (as size_t)
malloc_count_num_allocs == ToSize(num_allocs)


(***************************************************************************)
(* Bookkeeping of the run: the call in progress (or the last one that      *)
(* returned) with the ledger as it was on entry, and the locals of the     *)
(* entry point that is suspended while the observer runs.                  *)
(***************************************************************************)
\* the caller's record of a pointer it was given: the size it asked for, the
\* entry point and resolver state that minted it, curr before that call, and
\* what the real allocator returned for the block (NULL for the init heap)
NoPtr == [p |-> NULL, size |-> 0, kind |-> "none", by |-> "none", al |-> 0,
          c0 |-> 0, raw |-> NULL, from |-> "none"]
ArgRec(P, p) == IF \E q \in P : q.p = p THEN CHOOSE q \in P : q.p = p ELSE NoPtr

Snapshot == [curr |-> curr, peak |-> peak, total |-> total,
             num_allocs |-> num_allocs, init_heap_use |-> init_heap_use]

NewCall(op, size, al, arg) ==
    [op |-> op, size |-> size, al |-> al, arg |-> arg, ret |-> NULL,
     pre |-> Snapshot, phase |-> init_pc, argrec |-> ArgRec(ptrs, arg),
     done |-> FALSE, cbs |-> 0, cbarg |-> 0, real |-> <<>>, hdr |-> FALSE,
     resets |-> FALSE, diag |-> "", fail |-> FALSE]

NoCall == [op |-> "none", size |-> 0, al |-> 0, arg |-> NULL, ret |-> NULL,
           pre |-> [curr |-> 0, peak |-> 0, total |-> 0, num_allocs |-> 0,
                    init_heap_use |-> 0],
           phase |-> 0, argrec |-> NoPtr, done |-> TRUE, cbs |-> 0,
           cbarg |-> 0, real |-> <<>>, hdr |-> FALSE, resets |-> FALSE,
           diag |-> "", fail |-> FALSE]

NoFrame == [kind |-> "none", raw |-> NULL, ret |-> NULL, extra |-> 0, size |-> 0,
            hdr |-> NULL, oldsize |-> 0, old |-> NULL]

Returned(c, ret) == [c EXCEPT !.ret = ret, !.done = TRUE]
Observed(c, arg) == [c EXCEPT !.cbs = @ + 1, !.cbarg = arg]
\* a call through a real_* pointer: its pointer (or size) argument, and
\* whether the real allocator owns that pointer
RealCall(c, f, a, ok) == [c EXCEPT !.real = Append(@, [f |-> f, a |-> a, ok |-> ok])]

Minted(c, p, size, kind, raw) ==
    [p |-> p, size |-> size, kind |-> kind, by |-> c.op, al |-> c.al,
     c0 |-> c.pre.curr, raw |-> raw, from |-> c.argrec.kind]
Held == {q.p : q \in ptrs}
Without(P, p) == {q \in P : q.p # p}
SizeOf(P, p) == IF \E q \in P : q.p = p /\ q.kind = "real"
                THEN (CHOOSE q \in P : q.p = p /\ q.kind = "real").size ELSE 0

(***************************************************************************)
(* init(): the constructor resolves the four real functions one after the  *)
(* other; a failed lookup ends the process.  dlsym and setlocale may call  *)
(* the interposed entry points between the lookups.                        *)
(***************************************************************************)
Lookup(k) ==
    /\ pc = "idle"
    /\ init_pc = k
    /\ \/ /\ init_pc' = k + 1
          /\ real_malloc' = (real_malloc \/ k = 0)
          /\ real_aligned_alloc' = (real_aligned_alloc \/ k = 1)
          /\ real_realloc' = (real_realloc \/ k = 2)
          /\ real_free' = (real_free \/ k = 3)
          /\ pc' = pc
       \/ /\ pc' = "exited"
          /\ UNCHANGED resolver
    /\ UNCHANGED <<init_heap_use, ledger, observer, mem, heap, ptrs, frame,
                   call, ops, early, lost, heapCorrupt>>

InitMalloc == Lookup(0)
InitAlignedAlloc == Lookup(1)
InitRealloc == Lookup(2)
InitFree == Lookup(3)

(***************************************************************************)
(* The user functions of the ledger.                                       *)
(***************************************************************************)
\* malloc_count_reset_peak(), called between two entry-point calls or from
\* the observer while an entry point is suspended
malloc_count_reset_peak ==
    /\ pc \in {"idle", "inc_cb", "dec_cb"}
    /\ peak' = curr
    /\ call' = IF pc = "idle"
               THEN Returned(NewCall("reset_peak", 0, 0, NULL), NULL)
               ELSE IF peak = curr THEN call ELSE [call EXCEPT !.resets = TRUE]
    /\ UNCHANGED <<resolver, init_heap_use, curr, total, num_allocs, observer,
                   mem, heap, ptrs, pc, frame, ops, early, lost, heapCorrupt>>

malloc_count_set_callback(cb, cookie) ==
    /\ pc = "idle"
    /\ callback' = cb
    /\ callback_cookie' = cookie
    /\ call' = Returned(NewCall("set_callback", 0, 0, NULL), NULL)
    /\ UNCHANGED <<resolver, init_heap_use, ledger, mem, heap, ptrs, pc, frame,
                   ops, early, lost, heapCorrupt>>

(***************************************************************************)
(* The parts of the entry points that run after the observer returned.     *)
(* Each sets num_allocs, mem, ptrs, heap, heapCorrupt, pc, frame and call. *)
(***************************************************************************)
Crash(c) ==
    /\ pc' = "crashed"
    /\ frame' = NoFrame
    /\ call' = c

\* inc_count's ++num_allocs, then malloc / aligned_alloc write the header at
\* ret and return ret + alignment; realloc's growing path for a pointer of
\* the init heap then frees the old pointer, which is a no-op
AllocTail(f, c, hp) ==
    /\ num_allocs' = IncNum(num_allocs)
    /\ heap' = hp
    /\ heapCorrupt' = heapCorrupt
    /\ IF f.raw = NULL
       THEN /\ Crash([c EXCEPT !.fail = TRUE])
            /\ UNCHANGED <<mem, ptrs>>
       ELSE /\ mem' = WriteHeader(mem, f.ret, f.size, f.extra)
            /\ ptrs' = Without(ptrs, f.old) \cup {Minted(c, UserPtr(f.ret), f.size, "real", f.raw)}
            /\ pc' = "idle"
            /\ frame' = NoFrame
            /\ call' = Returned(c, UserPtr(f.ret))

\* free after dec_count: (*real_free)(ptr)
FreeTail(f, c, hp) ==
    /\ num_allocs' = num_allocs
    /\ \E o \in RealFreeOutcomes(hp, f.raw) :
         LET c1 == RealCall(c, "free", f.raw, f.raw \in HeapBases(hp)) IN
         IF o.status = "abort"
         THEN /\ Crash(c1)
              /\ UNCHANGED <<mem, ptrs, heap, heapCorrupt>>
         ELSE /\ heap' = o.heap
              /\ heapCorrupt' = (heapCorrupt \/ o.status = "corrupt")
              /\ mem' = IF o.status = "ok" THEN DropHeader(mem, f.hdr) ELSE mem
              /\ ptrs' = Without(ptrs, f.old)
              /\ pc' = "idle"
              /\ frame' = NoFrame
              /\ call' = Returned(c1, NULL)

\* realloc after inc_count's callback: ++num_allocs, (*real_realloc)(ptr,
\* size + alignment + extra_alignment), *(size_t*)newptr = size
ReallocTail(f, c, hp) ==
    /\ num_allocs' = IncNum(num_allocs)
    /\ IF ~real_realloc
       THEN /\ Crash(RealCall(c, "realloc", f.hdr, f.hdr \in HeapBases(hp)))
            /\ UNCHANGED <<mem, ptrs, heap, heapCorrupt>>
       ELSE \E o \in RealReallocOutcomes(hp, f.hdr, ToSize(f.size + alignment + f.extra)) :
              LET c1 == RealCall(c, "realloc", f.hdr, f.hdr \in HeapBases(hp)) IN
              IF o.status = "abort" \/ o.ptr = NULL
              THEN /\ Crash([c1 EXCEPT !.fail = (o.status = "ok")])
                   /\ UNCHANGED <<mem, ptrs, heap, heapCorrupt>>
              ELSE /\ heap' = o.heap
                   /\ heapCorrupt' = (heapCorrupt \/ o.status = "corrupt")
                   /\ mem' = IF o.status = "ok"
                             THEN [MoveHeader(mem, f.hdr, o.ptr) EXCEPT ![o.ptr].size = f.size]
                             ELSE [x \in (DOMAIN mem) \cup {o.ptr} |->
                                     IF x = o.ptr THEN [mem[f.hdr] EXCEPT !.size = f.size]
                                     ELSE mem[x]]
                   /\ ptrs' = Without(ptrs, f.old) \cup
                              {Minted(c, ToSize(o.ptr + alignment + f.extra), f.size, "real", o.ptr)}
                   /\ pc' = "idle"
                   /\ frame' = NoFrame
                   /\ call' = Returned(c1, ToSize(o.ptr + alignment + f.extra))


(***************************************************************************)
(* The bodies of malloc and free, which calloc and realloc call too.  op   *)
(* is the entry point the caller invoked, c its call record; old is the    *)
(* pointer realloc releases once it has its new block (NULL otherwise).    *)
(* Each sets every variable but ops and early.                             *)
(***************************************************************************)
\* inc_count up to and including the call of the observer
IncHead(inc) ==
    /\ curr' = IncCurr(curr, inc)
    /\ peak' = IncPeak(peak, IncCurr(curr, inc))
    /\ total' = IncTotal(total, inc)

MallocBody(c, size, old) ==
    IF IsZeroSize(size)
    THEN /\ call' = Returned(c, NULL)
         /\ UNCHANGED <<resolver, init_heap_use, ledger, observer, mem, heap,
                        ptrs, pc, frame, lost, heapCorrupt>>
    ELSE IF real_malloc
    THEN \E o \in RealAllocOutcomes(heap, MallocAlign, ToSize(alignment + size)) :
           LET f == [NoFrame EXCEPT !.kind = "alloc", !.raw = o.ptr, !.ret = o.ptr,
                                    !.size = size, !.old = old]
               c1 == RealCall(c, "malloc", ToSize(alignment + size), TRUE)
           IN /\ IncHead(size)
              /\ IF callback # NULL
                 THEN /\ pc' = "inc_cb"
                      /\ frame' = f
                      /\ call' = Observed(c1, IncCurr(curr, size))
                      /\ heap' = o.heap
                      /\ UNCHANGED <<num_allocs, mem, ptrs, heapCorrupt>>
                 ELSE AllocTail(f, c1, o.heap)
              /\ UNCHANGED <<resolver, init_heap_use, observer, lost>>
    ELSE IF ToSize(init_heap_use + alignment + size) > INIT_HEAP_SIZE
    THEN /\ pc' = "exited"
         /\ call' = [c EXCEPT !.diag = "init heap full"]
         /\ UNCHANGED <<resolver, init_heap_use, ledger, observer, mem, heap,
                        ptrs, frame, lost, heapCorrupt>>
    ELSE LET ret == ToSize(init_heap + init_heap_use) IN
         /\ init_heap_use' = ToSize(init_heap_use + alignment + size)
         /\ mem' = WriteHeader(mem, ret, size, 0)
         /\ ptrs' = Without(ptrs, old) \cup {Minted(c, UserPtr(ret), size, "arena", NULL)}
         /\ call' = Returned(c, UserPtr(ret))
         /\ UNCHANGED <<resolver, ledger, observer, heap, pc, frame, lost,
                        heapCorrupt>>

FreeBody(c, ptr) ==
    IF IsNull(ptr)
    THEN /\ call' = Returned(c, NULL)
         /\ UNCHANGED <<resolver, init_heap_use, ledger, observer, mem, heap,
                        ptrs, pc, frame, lost, heapCorrupt>>
    ELSE IF InInitHeap(ptr, init_heap_use)
    THEN /\ call' = Returned(c, NULL)
         /\ ptrs' = Without(ptrs, ptr)
         /\ UNCHANGED <<resolver, init_heap_use, ledger, observer, mem, heap,
                        pc, frame, lost, heapCorrupt>>
    ELSE IF ~real_free
    THEN /\ call' = Returned([c EXCEPT !.diag = "without real_free"], NULL)
         /\ ptrs' = Without(ptrs, ptr)
         /\ lost' = lost + SizeOf(ptrs, ptr)
         /\ UNCHANGED <<resolver, init_heap_use, ledger, observer, mem, heap,
                        pc, frame, heapCorrupt>>
    ELSE IF HeaderOf(ptr) \notin DOMAIN mem
    THEN /\ Crash([c EXCEPT !.hdr = TRUE])
         /\ UNCHANGED <<resolver, init_heap_use, ledger, observer, mem, heap,
                        ptrs, lost, heapCorrupt>>
    ELSE LET h == HeaderOf(ptr)
             size == mem[h].size
             extra_alignment == mem[h].extra_alignment
             f == [NoFrame EXCEPT !.kind = "free", !.hdr = h, !.size = size,
                                  !.extra = extra_alignment,
                                  !.raw = FreeBase(h, extra_alignment), !.old = ptr]
             c1 == [c EXCEPT !.hdr = TRUE,
                             !.diag = IF mem[h].sentinel # sentinel
                                      THEN "no sentinel" ELSE @]
         IN /\ curr' = DecCurr(curr, size)
            /\ IF callback # NULL
               THEN /\ pc' = "dec_cb"
                    /\ frame' = f
                    /\ call' = Observed(c1, DecCurr(curr, size))
                    /\ UNCHANGED <<num_allocs, mem, ptrs, heap, heapCorrupt>>
               ELSE FreeTail(f, c1, heap)
            /\ UNCHANGED <<resolver, init_heap_use, peak, total, observer, lost>>

(***************************************************************************)
(* The exported entry points.                                              *)
(***************************************************************************)
Enter ==
    /\ pc = "idle"
    /\ ops < MaxOps
    /\ ops' = ops + 1
    /\ early' = (early \/ init_pc # 4)

malloc(size) ==
    /\ Enter
    /\ MallocBody(NewCall("malloc", size, 0, NULL), size, NULL)

calloc(nmemb, size) ==
    /\ Enter
    /\ LET sz == ToSize(size * nmemb)
           c == NewCall("calloc", sz, 0, NULL)
       IN IF sz = 0
          THEN /\ call' = Returned(c, NULL)
               /\ UNCHANGED <<resolver, init_heap_use, ledger, observer, mem,
                              heap, ptrs, pc, frame, lost, heapCorrupt>>
          ELSE MallocBody(c, sz, NULL)

aligned_alloc(al, size) ==
    /\ Enter
    /\ LET c == NewCall("aligned_alloc", size, al, NULL) IN
       IF IsZeroSize(size)
       THEN /\ call' = Returned(c, NULL)
            /\ UNCHANGED <<resolver, init_heap_use, ledger, observer, mem,
                           heap, ptrs, pc, frame, lost, heapCorrupt>>
       ELSE IF ~real_aligned_alloc
       THEN /\ pc' = "exited"
            /\ call' = [c EXCEPT !.diag = "aligned_alloc in init heap"]
            /\ UNCHANGED <<resolver, init_heap_use, ledger, observer, mem,
                           heap, ptrs, frame, lost, heapCorrupt>>
       ELSE LET extra_alignment == ExtraAlignment(al) IN
            \E o \in RealAllocOutcomes(heap, al, ToSize(size + alignment + extra_alignment)) :
              LET f == [NoFrame EXCEPT !.kind = "alloc", !.raw = o.ptr,
                                       !.ret = ToSize(o.ptr + extra_alignment),
                                       !.extra = extra_alignment, !.size = size]
                  c1 == RealCall(c, "aligned_alloc", ToSize(size + alignment + extra_alignment), TRUE)
              IN /\ IncHead(size)
                 /\ IF callback # NULL
                    THEN /\ pc' = "inc_cb"
                         /\ frame' = f
                         /\ call' = Observed(c1, IncCurr(curr, size))
                         /\ heap' = o.heap
                         /\ UNCHANGED <<num_allocs, mem, ptrs, heapCorrupt>>
                    ELSE AllocTail(f, c1, o.heap)
                 /\ UNCHANGED <<resolver, init_heap_use, observer, lost>>

\* *memptr = aligned_alloc(al, size); return 0
posix_memalign(al, size) == aligned_alloc(al, size)

\* return aligned_alloc(al, size)
memalign(al, size) == aligned_alloc(al, size)

free(ptr) ==
    /\ Enter
    /\ FreeBody(NewCall("free", 0, 0, ptr), ptr)

realloc(ptr, size) ==
    /\ Enter
    /\ LET c == NewCall("realloc", size, 0, ptr) IN
       IF (InInitHeap(ptr, init_heap_use) \/ (size # 0 /\ ptr # NULL))
          /\ HeaderOf(ptr) \notin DOMAIN mem
       THEN /\ Crash([c EXCEPT !.hdr = TRUE])
            /\ UNCHANGED <<resolver, init_heap_use, ledger, observer, mem, heap,
                           ptrs, lost, heapCorrupt>>
       ELSE IF InInitHeap(ptr, init_heap_use)
       THEN LET h == HeaderOf(ptr)
                oldsize == mem[h].size
                c1 == [c EXCEPT !.hdr = TRUE,
                                !.diag = IF mem[h].sentinel # sentinel
                                         THEN "no sentinel" ELSE @]
            IN IF oldsize >= size
               THEN /\ mem' = [mem EXCEPT ![h].size = size]
                    /\ ptrs' = {IF q.p = ptr THEN [q EXCEPT !.size = size] ELSE q : q \in ptrs}
                    /\ call' = Returned(c1, UserPtr(h))
                    /\ UNCHANGED <<resolver, init_heap_use, ledger, observer,
                                   heap, pc, frame, lost, heapCorrupt>>
               ELSE MallocBody(c1, size, ptr)
       ELSE IF size = 0
       THEN FreeBody(c, ptr)
       ELSE IF ptr = NULL
       THEN MallocBody(c, size, NULL)
       ELSE LET h == HeaderOf(ptr)
                oldsize == mem[h].size
                f == [NoFrame EXCEPT !.kind = "realloc", !.hdr = h, !.oldsize = oldsize,
                                     !.size = size, !.extra = ReallocExtra(h), !.old = ptr]
                c1 == [c EXCEPT !.hdr = TRUE,
                                !.diag = IF mem[h].sentinel # sentinel
                                         THEN "no sentinel" ELSE @]
            IN /\ mem' = [mem EXCEPT ![h].extra_alignment = ReallocExtra(h)]
               /\ curr' = DecCurr(curr, oldsize)
               /\ frame' = f
               /\ IF callback # NULL
                  THEN /\ pc' = "dec_cb"
                       /\ call' = Observed(c1, DecCurr(curr, oldsize))
                  ELSE /\ pc' = "realloc_inc"
                       /\ call' = c1
               /\ UNCHANGED <<resolver, init_heap_use, peak, total, num_allocs,
                              observer, heap, ptrs, lost, heapCorrupt>>

\* realloc between dec_count(oldsize) and the rest: inc_count(size)
realloc_inc ==
    /\ pc = "realloc_inc"
    /\ IncHead(frame.size)
    /\ IF callback # NULL
       THEN /\ pc' = "inc_cb"
            /\ call' = Observed(call, IncCurr(curr, frame.size))
            /\ UNCHANGED <<num_allocs, mem, ptrs, heap, heapCorrupt, frame>>
       ELSE ReallocTail(frame, call, heap)
    /\ UNCHANGED <<resolver, init_heap_use, observer, ops, early, lost>>

\* the caller writes below a block it holds and overwrites the sentinel, the
\* last field of the header in front of the user pointer (while the run has
\* a call left that can read the header)
OverwriteSentinel(ptr) ==
    /\ pc = "idle"
    /\ ops < MaxOps
    /\ HeaderOf(ptr) \in DOMAIN mem
    /\ mem[HeaderOf(ptr)].sentinel = sentinel
    /\ mem' = [mem EXCEPT ![HeaderOf(ptr)].sentinel = "overwritten"]
    /\ UNCHANGED <<resolver, init_heap_use, ledger, observer, heap, ptrs, pc,
                   frame, call, ops, early, lost, heapCorrupt>>

\* the observer returns into inc_count or dec_count
callback_return ==
    /\ pc \in {"inc_cb", "dec_cb"}
    /\ IF pc = "inc_cb"
       THEN IF frame.kind = "alloc"
            THEN AllocTail(frame, call, heap)
            ELSE ReallocTail(frame, call, heap)
       ELSE IF frame.kind = "free"
            THEN FreeTail(frame, call, heap)
            ELSE /\ pc' = "realloc_inc"
                 /\ UNCHANGED <<num_allocs, mem, ptrs, heap, heapCorrupt, frame, call>>
    /\ UNCHANGED <<resolver, init_heap_use, peak, curr, total, observer, ops,
                   early, lost>>

(***************************************************************************)
(* The process.                                                            *)
(***************************************************************************)
Init ==
    /\ real_malloc = FALSE
    /\ real_aligned_alloc = FALSE
    /\ real_realloc = FALSE
    /\ real_free = FALSE
    /\ init_pc = 0
    /\ init_heap_use = 0
    /\ peak = 0
    /\ curr = 0
    /\ total = 0
    /\ num_allocs = 0
    /\ callback = NULL
    /\ callback_cookie = NULL
    /\ mem = <<>>
    /\ heap = {}
    /\ ptrs = {}
    /\ pc = "idle"
    /\ frame = NoFrame
    /\ call = NoCall
    /\ ops = 0
    /\ early = FALSE
    /\ lost = 0
    /\ heapCorrupt = FALSE

Next ==
    \/ InitMalloc
    \/ InitAlignedAlloc
    \/ InitRealloc
    \/ InitFree
    \/ malloc_count_reset_peak
    \/ \E a \in CallbackArgs : malloc_count_set_callback(a[1], a[2])
    \/ \E size \in Sizes : malloc(size)
    \/ \E a \in CallocArgs : calloc(a[1], a[2])
    \/ \E al \in Alignments, size \in Sizes : aligned_alloc(al, size)
    \/ \E al \in Alignments, size \in Sizes : posix_memalign(al, size)
    \/ \E al \in Alignments, size \in Sizes : memalign(al, size)
    \/ \E ptr \in Held \cup {NULL} : free(ptr)
    \/ \E ptr \in Held \cup {NULL}, size \in Sizes : realloc(ptr, size)
    \/ \E ptr \in Held : OverwriteSentinel(ptr)
    \/ realloc_inc
    \/ callback_return

Spec == Init /\ [][Next]_vars


(***************************************************************************)
(* Atomic mode (THREAD_SAFE_GCC_INTRINSICS = 1), after init(), no observer *)
(* set: NumThreads threads call malloc and free.  Here pc and frame map a  *)
(* thread to its position in inc_count and to its locals, ptrs holds the   *)
(* blocks returned and not yet freed, and call counts what inc_count was   *)
(* asked to account.  curr is updated by __sync_add_and_fetch and          *)
(* __sync_sub_and_fetch; peak, total and num_allocs are plain long long    *)
(* objects, and each of 'if (mycurr > peak) peak = mycurr', 'total += inc' *)
(* and '++num_allocs' is a load and a later store.                         *)
(***************************************************************************)
Threads == 1..NumThreads
AtomicSizes == {50, 100}
NoLocals == [id |-> 0, inc |-> 0, mycurr |-> 0, reg |-> 0]
atomicFixed == <<resolver, init_heap_use, observer, mem, heap, early, lost,
                 heapCorrupt>>

InitAtomic ==
    /\ real_malloc = TRUE
    /\ real_aligned_alloc = TRUE
    /\ real_realloc = TRUE
    /\ real_free = TRUE
    /\ init_pc = 4
    /\ init_heap_use = 0
    /\ peak = 0
    /\ curr = 0
    /\ total = 0
    /\ num_allocs = 0
    /\ callback = NULL
    /\ callback_cookie = NULL
    /\ mem = <<>>
    /\ heap = {}
    /\ ptrs = {}
    /\ pc = [t \in Threads |-> "idle"]
    /\ frame = [t \in Threads |-> NoLocals]
    /\ call = [asked |-> 0, calls |-> 0]
    /\ ops = 0
    /\ early = FALSE
    /\ lost = 0
    /\ heapCorrupt = FALSE

\* malloc(size) up to inc_count's first statement:
\* mycurr = __sync_add_and_fetch(&curr, inc)
sync_add_and_fetch(t, size) ==
    /\ pc[t] = "idle"
    /\ ops < MaxOps
    /\ ops' = ops + 1
    /\ curr' = IncCurr(curr, size)
    /\ frame' = [frame EXCEPT ![t] = [id |-> call.calls + 1, inc |-> size,
                                       mycurr |-> IncCurr(curr, size), reg |-> 0]]
    /\ call' = [asked |-> call.asked + size, calls |-> call.calls + 1]
    /\ pc' = [pc EXCEPT ![t] = "peak"]
    /\ UNCHANGED <<atomicFixed, peak, total, num_allocs, ptrs>>

\* if (mycurr > peak) peak = mycurr: the load of peak and the comparison
peak_load(t) ==
    /\ pc[t] = "peak"
    /\ pc' = [pc EXCEPT ![t] = IF frame[t].mycurr > peak THEN "peak_store" ELSE "total"]
    /\ UNCHANGED <<atomicFixed, ledger, ptrs, frame, call, ops>>

\* if (mycurr > peak) peak = mycurr: the store
peak_store(t) ==
    /\ pc[t] = "peak_store"
    /\ peak' = frame[t].mycurr
    /\ pc' = [pc EXCEPT ![t] = "total"]
    /\ UNCHANGED <<atomicFixed, curr, total, num_allocs, ptrs, frame, call, ops>>

\* total += inc: the load
total_load(t) ==
    /\ pc[t] = "total"
    /\ frame' = [frame EXCEPT ![t].reg = total]
    /\ pc' = [pc EXCEPT ![t] = "total_store"]
    /\ UNCHANGED <<atomicFixed, ledger, ptrs, call, ops>>

\* total += inc: the store
total_store(t) ==
    /\ pc[t] = "total_store"
    /\ total' = IncTotal(frame[t].reg, frame[t].inc)
    /\ pc' = [pc EXCEPT ![t] = "num"]
    /\ UNCHANGED <<atomicFixed, peak, curr, num_allocs, ptrs, frame, call, ops>>

\* ++num_allocs: the load
num_allocs_load(t) ==
    /\ pc[t] = "num"
    /\ frame' = [frame EXCEPT ![t].reg = num_allocs]
    /\ pc' = [pc EXCEPT ![t] = "num_store"]
    /\ UNCHANGED <<atomicFixed, ledger, ptrs, call, ops>>

\* ++num_allocs: the store; then malloc writes the header and returns
num_allocs_store(t) ==
    /\ pc[t] = "num_store"
    /\ num_allocs' = IncNum(frame[t].reg)
    /\ ptrs' = ptrs \cup {[id |-> frame[t].id, size |-> frame[t].inc]}
    /\ frame' = [frame EXCEPT ![t] = NoLocals]
    /\ pc' = [pc EXCEPT ![t] = "idle"]
    /\ UNCHANGED <<atomicFixed, peak, curr, total, call, ops>>

\* free(ptr): dec_count's __sync_sub_and_fetch(&curr, dec), then the real free
sync_sub_and_fetch(t, q) ==
    /\ pc[t] = "idle"
    /\ ops < MaxOps
    /\ ops' = ops + 1
    /\ curr' = DecCurr(curr, q.size)
    /\ ptrs' = ptrs \ {q}
    /\ UNCHANGED <<atomicFixed, peak, total, num_allocs, pc, frame, call>>

NextAtomic ==
    \/ \E t \in Threads, size \in AtomicSizes : sync_add_and_fetch(t, size)
    \/ \E t \in Threads : peak_load(t)
    \/ \E t \in Threads : peak_store(t)
    \/ \E t \in Threads : total_load(t)
    \/ \E t \in Threads : total_store(t)
    \/ \E t \in Threads : num_allocs_load(t)
    \/ \E t \in Threads : num_allocs_store(t)
    \/ \E t \in Threads, q \in ptrs : sync_sub_and_fetch(t, q)

SpecAtomic == InitAtomic /\ [][NextAtomic]_vars


(***************************************************************************)
(* Vocabulary of the properties.                                           *)
(***************************************************************************)
RECURSIVE SumSizes(_)
SumSizes(S) == IF S = {} THEN 0
               ELSE LET q == CHOOSE x \in S : TRUE IN q.size + SumSizes(S \ {q})

\* the pointers the caller holds that the ledger accounts for
LiveAccounted == {q \in ptrs : q.kind = "real"}
Max(a, b) == IF a >= b THEN a ELSE b
\* the entry point op was called and has returned
Done(op) == pc = "idle" /\ call.op = op /\ call.done
LedgerAsOnEntry ==
    /\ curr = call.pre.curr
    /\ peak = call.pre.peak
    /\ total = call.pre.total
    /\ num_allocs = call.pre.num_allocs

(***************************************************************************)
(* C1.  When every entry-point call was made after init() had finished,    *)
(* between two calls curr is the sum of the sizes requested for the        *)
(* accounted pointers the caller still holds, and malloc_count_current()   *)
(* is 0 once the caller has released every pointer.                        *)
(***************************************************************************)
C1_CurrentIsLiveSum ==
    (pc = "idle" /\ ~early) =>
        /\ curr = SumSizes(LiveAccounted)
        /\ (ptrs = {} => malloc_count_current = 0)


(***************************************************************************)
(* C2.  With the resolver ready, malloc(size) with size > 0 returns with   *)
(* curr and total larger by exactly size, num_allocs larger by 1 and peak  *)
(* the maximum of the old peak and the new curr; free(p) of a pointer such *)
(* a malloc returned for a request of s bytes returns with curr smaller by *)
(* exactly s and peak, total and num_allocs as they were.  (A reset_peak   *)
(* made by the observer during the call is not the call's effect.)         *)
(***************************************************************************)
C2_MallocFreeDeltas ==
    /\ (Done("malloc") /\ call.phase = 4 /\ call.size > 0 /\ ~call.resets) =>
          /\ curr = call.pre.curr + call.size
          /\ total = call.pre.total + call.size
          /\ num_allocs = call.pre.num_allocs + 1
          /\ peak = Max(call.pre.peak, curr)
    /\ (Done("free") /\ call.phase = 4 /\ call.argrec.by = "malloc"
        /\ call.argrec.kind = "real" /\ ~call.resets) =>
          /\ curr = call.pre.curr - call.argrec.size
          /\ peak = call.pre.peak
          /\ total = call.pre.total
          /\ num_allocs = call.pre.num_allocs

(***************************************************************************)
(* C3.  While the process runs, whatever the position of the entry point   *)
(* in progress (the observer running, realloc between its decrement and    *)
(* its increment), 0 <= curr and curr <= peak.  Stated for the runs in     *)
(* which every call was made after init() had finished.                    *)
(***************************************************************************)
C3_CurrBounds ==
    (~early /\ pc \notin {"crashed", "exited"}) => (0 <= curr /\ curr <= peak)


(***************************************************************************)
(* C4.  Whenever free() calls the real free, the pointer it passes is one  *)
(* the real allocator returned and has not released yet: it is the real    *)
(* allocator's return value for the block of the user pointer, which for a *)
(* pointer of malloc or aligned_alloc is the user pointer less the header  *)
(* size less the extra alignment; and no pointer minted from the init heap *)
(* reaches the real free.                                                  *)
(***************************************************************************)
C4_RealFreeArgs ==
    call.op \in {"free", "realloc"} =>
        \A i \in DOMAIN call.real :
            call.real[i].f = "free" =>
                /\ call.real[i].ok
                /\ call.argrec.kind = "real"
                /\ call.real[i].a = call.argrec.raw
                /\ call.argrec.by \in {"malloc", "calloc", "aligned_alloc"} =>
                       call.real[i].a =
                           ToSize(call.arg - alignment - ExtraAlignment(call.argrec.al))

(***************************************************************************)
(* C5.  aligned_alloc(a, size) with size > 0 (memalign and posix_memalign  *)
(* forward to it) returns a multiple of a, and free of that pointer, made  *)
(* while curr is what the aligned_alloc call left, returns with curr as it *)
(* was before the aligned_alloc call.                                      *)
(***************************************************************************)
C5_AlignedAlloc ==
    /\ (Done("aligned_alloc") /\ call.size > 0) => call.ret % call.al = 0
    /\ (Done("free") /\ call.argrec.by = "aligned_alloc"
        /\ call.pre.curr = ToLL(call.argrec.c0 + call.argrec.size)) =>
           curr = call.argrec.c0

(***************************************************************************)
(* C6.  realloc(NULL, n) returns with the effect and result of malloc(n):  *)
(* NULL and no change for n = 0, a block of the real allocator accounted   *)
(* with n once real malloc is resolved, a block of the init heap and no    *)
(* change of the ledger before.  realloc(p, 0) for a pointer p the caller  *)
(* holds returns NULL with the effect of free(p): p is released, and the   *)
(* ledger is untouched for a pointer of the init heap.                     *)
(***************************************************************************)
C6_ReallocEdges ==
    /\ (Done("realloc") /\ call.arg = NULL) =>
          IF call.size = 0
          THEN call.ret = NULL /\ LedgerAsOnEntry
          ELSE IF call.phase >= 1
          THEN /\ curr = ToLL(call.pre.curr + call.size)
               /\ total = ToLL(call.pre.total + call.size)
               /\ num_allocs = call.pre.num_allocs + 1
               /\ call.ret \in Held
               /\ ArgRec(ptrs, call.ret).kind = "real"
          ELSE /\ LedgerAsOnEntry
               /\ call.ret = ToSize(init_heap + call.pre.init_heap_use + alignment)
               /\ init_heap_use = ToSize(call.pre.init_heap_use + alignment + call.size)
    /\ (Done("realloc") /\ call.arg # NULL /\ call.size = 0) =>
          /\ call.ret = NULL
          /\ call.arg \notin Held
          /\ call.argrec.kind = "arena" => LedgerAsOnEntry

(***************************************************************************)
(* C7.  A request made before real malloc is resolved is served from the   *)
(* init heap without touching the ledger, the observer or the real         *)
(* allocator; and so is every later free of that pointer and every realloc *)
(* of it to a size not above the one it has.                               *)
(***************************************************************************)
C7_ArenaUnaccounted ==
    /\ (Done("malloc") /\ call.phase = 0 /\ call.size > 0) =>
          /\ ArgRec(ptrs, call.ret).kind = "arena"
          /\ LedgerAsOnEntry
          /\ call.cbs = 0
          /\ call.real = <<>>
    /\ (call.argrec.kind = "arena"
        /\ (call.op = "free" \/ (call.op = "realloc" /\ call.size <= call.argrec.size))) =>
          /\ LedgerAsOnEntry
          /\ call.cbs = 0
          /\ call.real = <<>>
          /\ pc # "crashed"

(***************************************************************************)
(* C8.  malloc(0), aligned_alloc(a, 0) and calloc(n, s) with n * s = 0     *)
(* return NULL in every state of the resolver, aligned_alloc(a, 0) before  *)
(* real aligned_alloc is resolved included, and change neither the ledger  *)
(* nor the bump pointer of the init heap, call neither the observer nor    *)
(* the real allocator.                                                     *)
(***************************************************************************)
C8_ZeroSizeNoOp ==
    (call.op \in {"malloc", "aligned_alloc", "calloc"} /\ call.size = 0) =>
        /\ call.done
        /\ call.ret = NULL
        /\ LedgerAsOnEntry
        /\ init_heap_use = call.pre.init_heap_use
        /\ call.cbs = 0
        /\ call.real = <<>>

\* aligned_alloc(a, 0) returned before real aligned_alloc was resolved
C8_Witness ==
    /\ Done("aligned_alloc")
    /\ call.size = 0
    /\ call.phase < 2
    /\ ~real_aligned_alloc

(***************************************************************************)
(* C9.  free(NULL) returns in every state of the resolver without changing *)
(* the ledger, calling the observer, reading a header, printing a          *)
(* diagnostic or calling the real free.                                    *)
(***************************************************************************)
C9_FreeNullNoOp ==
    (call.op = "free" /\ call.arg = NULL) =>
        /\ call.done
        /\ LedgerAsOnEntry
        /\ call.cbs = 0
        /\ ~call.hdr
        /\ call.diag = ""
        /\ call.real = <<>>

\* free(NULL) returned between two lookups of init(), with an observer set
\* and blocks accounted
C9_Witness ==
    /\ Done("free")
    /\ call.arg = NULL
    /\ call.phase \in 1..3
    /\ callback # NULL
    /\ curr > 0

(***************************************************************************)
(* C10.  From one state to the next total and num_allocs never decrease,   *)
(* and peak decreases only in a step of malloc_count_reset_peak(), which   *)
(* leaves peak = curr.  Stated for the steps taken after init() finished.  *)
(***************************************************************************)
C10_Monotone ==
    [][init_pc = 4 =>
         /\ total' >= total
         /\ num_allocs' >= num_allocs
         /\ peak' < peak => (peak' = curr' /\ UNCHANGED <<curr, total, num_allocs>>)]_vars


(***************************************************************************)
(* C11.  While the observer runs for an allocation (it was called by       *)
(* inc_count), curr, total, peak and num_allocs all include that           *)
(* allocation already, and the value the observer was given is curr.       *)
(***************************************************************************)
C11_ObserverSeesWholeUpdate ==
    pc = "inc_cb" =>
        /\ call.cbarg = curr
        /\ curr = ToLL(call.pre.curr - frame.oldsize + frame.size)
        /\ total = ToLL(call.pre.total + frame.size)
        /\ peak >= curr
        /\ num_allocs = ToLL(call.pre.num_allocs + 1)


(***************************************************************************)
(* C12.  realloc(u, n) with n > 0 of a pointer u that aligned_alloc        *)
(* returned for an alignment above the header size passes to the real      *)
(* realloc the pointer the real aligned_alloc returned for u, and a later  *)
(* free of a pointer realloc returned passes to the real free the pointer  *)
(* the real realloc returned.  Stated for the calls made after init() has  *)
(* finished.                                                               *)
(***************************************************************************)
C12_ReallocUndoesExtraAlignment ==
    /\ (call.op = "realloc" /\ call.phase = 4 /\ call.size > 0
        /\ call.argrec.by = "aligned_alloc" /\ call.argrec.kind = "real"
        /\ call.argrec.al > alignment) =>
          \A i \in DOMAIN call.real :
              call.real[i].f = "realloc" =>
                  /\ call.real[i].ok
                  /\ call.real[i].a = call.argrec.raw
                  /\ call.real[i].a =
                         ToSize(call.arg - alignment - ExtraAlignment(call.argrec.al))
    /\ (call.op = "free" /\ call.phase = 4 /\ call.argrec.by = "realloc"
        /\ call.argrec.kind = "real") =>
          \A i \in DOMAIN call.real :
              call.real[i].f = "free" =>
                  call.real[i].ok /\ call.real[i].a = call.argrec.raw

(***************************************************************************)
(* C13.  A call through real_malloc, real_aligned_alloc, real_realloc or   *)
(* real_free is made only when init() has set that pointer, calls made     *)
(* between the lookups of init() included.                                 *)
(***************************************************************************)
C13_NoCallThroughUnsetPointer ==
    \A i \in DOMAIN call.real :
        /\ call.real[i].f = "malloc" => real_malloc
        /\ call.real[i].f = "aligned_alloc" => real_aligned_alloc
        /\ call.real[i].f = "realloc" => real_realloc
        /\ call.real[i].f = "free" => real_free


(***************************************************************************)
(* C14.  The init heap is never overrun: init_heap_use never exceeds       *)
(* INIT_HEAP_SIZE and never decreases, and the header and the payload of   *)
(* every block served from the init heap lie inside the static array.      *)
(***************************************************************************)
C14_InitHeapNeverOverrun ==
    /\ [](/\ init_heap_use <= INIT_HEAP_SIZE
          /\ \A q \in ptrs :
                q.kind = "arena" =>
                    /\ init_heap <= q.p - alignment
                    /\ q.p + q.size <= init_heap + INIT_HEAP_SIZE)
    /\ [][init_heap_use' >= init_heap_use]_vars

(***************************************************************************)
(* C15.  The block the real allocator granted for a request of size > 0    *)
(* holds the header, the padding and the payload: the size bytes from the  *)
(* user pointer on lie inside the granted block, behind its header, and    *)
(* overlap no header of any live block.                                    *)
(***************************************************************************)
C15_GrantedBlockHoldsPayload ==
    \A q \in ptrs :
        (q.kind = "real" /\ q.size > 0) =>
            /\ \E b \in heap :
                  /\ b.base = q.raw
                  /\ b.base + alignment <= q.p
                  /\ q.p + q.size <= b.base + b.len
            /\ \A h \in DOMAIN mem :
                  h + alignment <= q.p \/ q.p + q.size <= h


(***************************************************************************)
(* C19.  When the real allocator returns NULL to malloc, aligned_alloc or  *)
(* realloc, the entry point returns NULL to its caller: it writes no       *)
(* header through the null pointer and leaves the request out of curr,     *)
(* total and num_allocs.                                                   *)
(***************************************************************************)
C19_RealFailureIsReported ==
    /\ (pc = "inc_cb" /\ frame.kind = "alloc" /\ frame.raw = NULL) =>
          /\ curr = call.pre.curr
          /\ total = call.pre.total
    /\ call.fail =>
          /\ pc # "crashed"
          /\ call.done
          /\ call.ret = NULL
          /\ curr = call.pre.curr
          /\ total = call.pre.total
          /\ num_allocs = call.pre.num_allocs

(***************************************************************************)
(* C20.  A block accounted by inc_count is un-accounted by dec_count and   *)
(* handed to the real free when the caller frees it, also between the      *)
(* lookups of init(): free never drops it on the path 'outside init heap   *)
(* and without real_free', and curr is 0 once the caller holds no pointer. *)
(***************************************************************************)
C20_NoAccountedBlockDropped ==
    /\ (Done("free") /\ call.argrec.kind = "real") =>
          /\ call.diag # "without real_free"
          /\ curr = ToLL(call.pre.curr - call.argrec.size)
          /\ \E i \in DOMAIN call.real :
                call.real[i].f = "free" /\ call.real[i].a = call.argrec.raw
    /\ lost = 0
    /\ (pc = "idle" /\ ptrs = {}) => malloc_count_current = 0


(***************************************************************************)
(* C17.  realloc(p, n) of a pointer p of the init heap whose recorded size *)
(* is old: for n <= old it returns p with the size in p's header rewritten *)
(* to n and the ledger as on entry; for n > old it returns a fresh block   *)
(* obtained through malloc (accounted with n once real malloc is resolved, *)
(* taken from the init heap before), p is released without a call of the   *)
(* real free, and a free of the new pointer, made while curr is what the   *)
(* realloc left, returns with curr as it was before the realloc.           *)
(***************************************************************************)
C17_ReallocOfInitHeapPointer ==
    /\ (Done("realloc") /\ call.argrec.kind = "arena"
        /\ call.size <= call.argrec.size) =>
          /\ call.ret = call.arg
          /\ HeaderOf(call.arg) \in DOMAIN mem
          /\ mem[HeaderOf(call.arg)].size = call.size
          /\ LedgerAsOnEntry
          /\ call.real = <<>>
    /\ (call.op = "realloc" /\ call.argrec.kind = "arena"
        /\ call.size > call.argrec.size) =>
          /\ \A i \in DOMAIN call.real : call.real[i].f = "malloc"
          /\ pc # "crashed" \/ call.fail
          /\ Done("realloc") =>
                /\ call.ret # call.arg
                /\ call.ret \in Held
                /\ call.arg \notin Held
                /\ IF call.phase >= 1
                   THEN /\ ArgRec(ptrs, call.ret).kind = "real"
                        /\ curr = ToLL(call.pre.curr + call.size)
                        /\ total = ToLL(call.pre.total + call.size)
                        /\ num_allocs = ToLL(call.pre.num_allocs + 1)
                   ELSE /\ ArgRec(ptrs, call.ret).kind = "arena"
                        /\ LedgerAsOnEntry
    /\ (Done("free") /\ call.argrec.by = "realloc" /\ call.argrec.from = "arena"
        /\ call.argrec.kind = "real"
        /\ call.pre.curr = ToLL(call.argrec.c0 + call.argrec.size)) =>
          curr = call.argrec.c0


(***************************************************************************)
(* C18.  When free or realloc finds a header of a block of the real        *)
(* allocator whose sentinel is not the magic value, the process is not     *)
(* terminated and the call runs to completion as for a valid header: free  *)
(* returns with curr smaller by the size in the header and has called the  *)
(* real free; realloc returns with curr smaller by the old size and larger *)
(* by the new one and has called the real realloc.  Stated for the calls   *)
(* made after init() has finished.                                         *)
(***************************************************************************)
C18_SentinelMismatchRecoverable ==
    (call.diag = "no sentinel" /\ call.phase = 4 /\ call.argrec.kind = "real") =>
        /\ pc \notin {"crashed", "exited"}
        /\ (Done("free") \/ (Done("realloc") /\ call.size = 0)) =>
              /\ curr = ToLL(call.pre.curr - call.argrec.size)
              /\ \E i \in DOMAIN call.real : call.real[i].f = "free"
        /\ (Done("realloc") /\ call.size > 0) =>
              /\ curr = ToLL(call.pre.curr - call.argrec.size + call.size)
              /\ \E i \in DOMAIN call.real : call.real[i].f = "realloc"


(***************************************************************************)
(* C16.  In atomic mode, for every interleaving of the malloc and free     *)
(* calls of the threads, once every call has returned curr is the sum of   *)
(* the sizes of the blocks not yet freed, total is the sum of all sizes    *)
(* inc_count was asked to account and num_allocs is the number of those    *)
(* requests.  (Nothing is said of peak.)                                   *)
(***************************************************************************)
C16_AtomicModeLosesNoUpdate ==
    (\A t \in Threads : pc[t] = "idle") =>
        /\ curr = SumSizes(ptrs)
        /\ total = call.asked
        /\ num_allocs = call.calls

=============================================================================
